---------------------------- MODULE Spec2Model ----------------------------
(***************************************************************************)
(* A model of 2d_percolation.py: the predicate is_percolating and the      *)
(* bisection search percolation_threshold.                                 *)
(*                                                                         *)
(* Heights are floating-point numbers in the program.  Here a height is an *)
(* integer number of ticks and the representable heights are the multiples *)
(* of Ulp ticks, a fixed-point format: it has the uniform spacing binary64 *)
(* has within one binade, which is where the last steps of a bisection     *)
(* take place.  The midpoint (a + b)/2 of two representable heights is     *)
(* rounded to the grid, a tie to the even grid index, as IEEE-754 rounds   *)
(* the sum of two numbers of one binade.  conv is any integer number of    *)
(* ticks, so it may be smaller than the spacing of the grid.  The history  *)
(* variable exact records whether every midpoint computed so far was       *)
(* representable, which is the case of exact arithmetic.                   *)
(*                                                                         *)
(* Arrays are sequences of rows; index 1 is the program's index 0.  An     *)
(* exception is the name of its class.                                     *)
(***************************************************************************)
EXTENDS Integers, Sequences, FiniteSets

\* ------------------------------------------------------------------ bounds

\* Largest number of cells of an enumerated field.
MaxCells == 4

\* Spacing of the representable heights, in ticks.
Ulp == 2

\* ------------------------------------------------------------- array helpers

NRows(a) == Len(a)

NCols(a) == Len(a[1])

Cells(a) == (1..NRows(a)) \X (1..NCols(a))

\* Position of a cell in C (row-major) order.
Raster(a, cell) == (cell[1] - 1) * NCols(a) + cell[2]

\* landscape.max() and landscape.min()
ArrayMax(a) == CHOOSE v \in {a[c[1]][c[2]] : c \in Cells(a)} :
                  \A c \in Cells(a) : a[c[1]][c[2]] <= v

ArrayMin(a) == CHOOSE v \in {a[c[1]][c[2]] : c \in Cells(a)} :
                  \A c \in Cells(a) : v <= a[c[1]][c[2]]

\* a.astype(int) of a boolean array
AsInt(a) == [r \in 1..NRows(a) |-> [c \in 1..NCols(a) |-> IF a[r][c] THEN 1 ELSE 0]]

\* ------------------------------------------------------------ is_percolating

\* numpy's normalisation of an axis argument of a 2D array: -2..1 are valid.
AxisInBounds(ax) == ax \in -2..1

NormAxis(ax) == IF ax < 0 THEN ax + 2 ELSE ax

\* The reduction taken along the other axis.
AnyAlongSwapped(f, ax) ==
    IF NormAxis(ax) = 0
    THEN [r \in 1..NRows(f) |-> \E c \in 1..NCols(f) : f[r][c]]
    ELSE [c \in 1..NCols(f) |-> \E r \in 1..NRows(f) : f[r][c]]

\* np.any(f, axis=ax): the reduction removes dimension ax.
AnyAlong(f, ax) ==
    IF NormAxis(ax) = 0
    THEN [c \in 1..NCols(f) |-> \E r \in 1..NRows(f) : f[r][c]]
    ELSE [r \in 1..NRows(f) |-> \E c \in 1..NCols(f) : f[r][c]]

\* np.any in place of np.all.
SpanningAny(f, ax) == \E i \in DOMAIN AnyAlong(f, ax) : AnyAlong(f, ax)[i]

\* np.all(np.any(f, axis=ax))
Spanning(f, ax) == \A i \in DOMAIN AnyAlong(f, ax) : AnyAlong(f, ax)[i]

\* np.any(np.bitwise_and(f[:,0], f[:,-1]))
WrapColumns(f) == \E r \in 1..NRows(f) : f[r][1] /\ f[r][NCols(f)]

\* np.any(np.bitwise_and(f[0], f[-1]))
WrapRows(f) == \E c \in 1..NCols(f) : f[1][c] /\ f[NRows(f)][c]

\* The outcome of is_percolating(f, axis, periodic): "True", "False", or the
\* exception raised.  An axis outside -2..1 makes np.any raise AxisError; the
\* match statement compares the axis as given, so -1 and -2 reach case _.
is_percolating(f, ax, per) ==
    IF ~AxisInBounds(ax) THEN "AxisError"
    ELSE IF Spanning(f, ax)
         THEN IF per
              THEN CASE ax = 0 -> IF ~WrapColumns(f) THEN "False" ELSE "True"
                     [] ax = 1 -> IF ~WrapRows(f) THEN "False" ELSE "True"
                     [] OTHER  -> "ValueError"
              ELSE "True"
         ELSE "False"

\* ------------------------------------------------------- scipy.ndimage.label

Adjacent(c, d) ==
    \/ c[1] = d[1] /\ (c[2] = d[2] + 1 \/ d[2] = c[2] + 1)
    \/ c[2] = d[2] /\ (c[1] = d[1] + 1 \/ d[1] = c[1] + 1)

\* The one element of a singleton.  A value is named below by a bound variable
\* of a singleton, { e(x) : x \in {v} }, so that it is computed once.
The(S) == CHOOSE x \in S : TRUE

\* The 4-connected cluster of the on cells that grows from S, whose newest
\* cells are frontier.
RECURSIVE Flood(_, _, _)
Flood(on, S, frontier) ==
    The({IF new = {} THEN done ELSE Flood(on, done \cup new, new) :
            <<done, new>> \in {<<S, {c \in on \ S : \E d \in frontier : Adjacent(c, d)}>>}})

\* The comparison reversed: landscape >= mid_point.
ImageReversed(field, mid) ==
    [r \in 1..NRows(field) |-> [c \in 1..NCols(field) |->
        IF field[r][c] >= mid THEN 1 ELSE 0]]

\* (landscape <= mid_point).astype(int)
Image(field, mid) ==
    [r \in 1..NRows(field) |-> [c \in 1..NCols(field) |->
        IF field[r][c] <= mid THEN 1 ELSE 0]]

\* The clusters of the on cells, in the raster order of their first cells.
RECURSIVE Clusters(_, _)
Clusters(a, cells) ==
    The({IF on = {} THEN << >>
         ELSE The({<<comp>> \o Clusters(a, on \ comp) :
                     comp \in {Flood(on, {s}, {s}) :
                                 s \in {c \in on : \A d \in on : Raster(a, c) <= Raster(a, d)}}}) :
            on \in {cells}})

\* label(image) with the default (4-connected) structure: 0 is the background
\* and the clusters are numbered 1..labels.
label(image) ==
    The({[features |-> [r \in 1..NRows(image) |-> [c \in 1..NCols(image) |->
                           IF \E k \in 1..Len(cl) : <<r, c>> \in cl[k]
                           THEN CHOOSE k \in 1..Len(cl) : <<r, c>> \in cl[k]
                           ELSE 0]],
          labels   |-> Len(cl)] :
            cl \in {Clusters(image, {c \in Cells(image) : image[c[1]][c[2]] # 0})}})

\* features == l + 1   (here k is l + 1)
ClusterMask(features, k) ==
    [r \in 1..NRows(features) |-> [c \in 1..NCols(features) |-> features[r][c] = k]]

\* -------------------------------------------------------- percolation_threshold

None == << >>

\* A flipped comparison in the loop condition.
LoopConditionFlipped(upper, lower, cv) == upper - lower < cv

\* threshold_upper - threshold_lower > conv
LoopCondition(upper, lower, cv) == upper - lower > cv

\* (threshold_upper + threshold_lower)/2, rounded to the grid (ties to even).
MidPoint(upper, lower) ==
    LET s == (upper \div Ulp) + (lower \div Ulp)
        q == s \div 2
    IN  IF s % 2 = 0 THEN q * Ulp
        ELSE IF q % 2 = 0 THEN q * Ulp ELSE (q + 1) * Ulp

\* Whether the midpoint is representable without rounding.
MidExact(upper, lower) == ((upper \div Ulp) + (lower \div Ulp)) % 2 = 0

\* Only the first cluster is tested.
ScanFirstOnly(field, mid, ax, per) ==
    The({[outcome |-> t,
          f       |-> IF t = "False" THEN None ELSE ClusterMask(lab.features, 1)] :
            <<lab, t>> \in {<<l, is_percolating(ClusterMask(l.features, 1), ax, per)>> :
                              l \in {label(Image(field, mid))}}})

\* for l in range(labels), from cluster k on: the first test that does not
\* return False ends the loop (True: the break, with f the cluster; otherwise
\* the exception raised).  "False": the loop ran to its end.
RECURSIVE ForLoop(_, _, _, _)
ForLoop(lab, k, ax, per) ==
    IF k > lab.labels THEN [outcome |-> "False", f |-> None]
    ELSE The({IF t = "False" THEN ForLoop(lab, k + 1, ax, per)
              ELSE [outcome |-> t, f |-> ClusterMask(lab.features, k)] :
                 t \in {is_percolating(ClusterMask(lab.features, k), ax, per)}})

\* image = (landscape <= mid_point).astype(int); features, labels = label(image);
\* then the for loop.
Scan(field, mid, ax, per) ==
    The({ForLoop(lab, 1, ax, per) : lab \in {label(Image(field, mid))}})

VARIABLES landscape, axis, conv, periodic,
          threshold_upper, threshold_lower, percolating_cluster, mid_point,
          f, tested, pc, exc, exact

vars == <<landscape, axis, conv, periodic,
          threshold_upper, threshold_lower, percolating_cluster, mid_point,
          f, tested, pc, exc, exact>>

\* ------------------------------------------------------------------- inputs

Hundredth == 1024 * Ulp

Ten == 1000 * Hundredth

Hundred == 10000 * Hundredth

Heights == {0, 3 * Ulp, 8 * Ulp}

Shapes == {s \in (1..MaxCells) \X (1..MaxCells) : s[1] * s[2] <= MaxCells}

SmallFields == UNION {[1..s[1] -> [1..s[2] -> Heights]] : s \in Shapes}

\* The 5x5 field whose row 2 (0-indexed) is 0 and whose other cells are 10.
RowField == [r \in 1..5 |-> [c \in 1..5 |-> IF r = 3 THEN 0 ELSE Ten]]

\* Checkerboards of 0 and 100.
Checkerboard(R, C, p) ==
    [r \in 1..R |-> [c \in 1..C |-> IF (r + c) % 2 = p THEN 0 ELSE Hundred]]

Checkerboards == {Checkerboard(s[1], s[2], p) : s \in {<<2, 2>>, <<2, 3>>, <<3, 3>>}, p \in {0, 1}}

\* Two-valued fields on slightly larger grids.
BinaryShapes == {s \in (1..MaxCells + 2) \X (1..MaxCells + 2) : s[1] * s[2] <= MaxCells + 2}

BinaryFields == UNION {[1..s[1] -> [1..s[2] -> {0, 8 * Ulp}]] : s \in BinaryShapes}

Fields == SmallFields \cup BinaryFields \cup {RowField} \cup Checkerboards

Axes == {-1, 0, 1, 2}

Convs == {-Ulp, 0, 1, Ulp, 2 * Ulp, Hundredth}

\* ------------------------------------------------------------------ actions

\* percolation_threshold(landscape, axis, conv, periodic) has been called with
\* arguments from the given sets: the bracket is [landscape.min(),
\* landscape.max()] and there is no cluster yet.
Called(fields, axes, convs) ==
    /\ landscape \in fields
    /\ axis \in axes
    /\ conv \in convs
    /\ periodic \in BOOLEAN
    /\ threshold_upper = ArrayMax(landscape)
    /\ threshold_lower = ArrayMin(landscape)
    /\ percolating_cluster = None
    /\ mid_point = -1
    /\ f = None
    /\ tested = "False"
    /\ pc = "while"
    /\ exc = "None"
    /\ exact = TRUE

Init == Called(Fields, Axes, Convs)

\* The calls on the fields of at most two cells.
LiveFields == {a \in SmallFields : NRows(a) * NCols(a) <= 2}

LiveInit == Called(LiveFields, Axes, Convs)

\* The loop condition is true: the midpoint is computed, the image is labelled
\* and the for loop tests the clusters in label order, up to its break (f is
\* then the percolating cluster), its exhaustion, or an exception.
WhileEnter ==
    /\ pc = "while"
    /\ LoopCondition(threshold_upper, threshold_lower, conv)
    /\ mid_point' = MidPoint(threshold_upper, threshold_lower)
    /\ exact' = (exact /\ MidExact(threshold_upper, threshold_lower))
    /\ \E s \in {Scan(landscape, MidPoint(threshold_upper, threshold_lower), axis, periodic)} :
           /\ f' = s.f
           /\ tested' = s.outcome
    /\ pc' = "body"
    /\ UNCHANGED <<landscape, axis, conv, periodic, threshold_upper,
                   threshold_lower, percolating_cluster, exc>>

\* The loop condition is false: return threshold_upper, percolating_cluster
WhileExit ==
    /\ pc = "while"
    /\ ~LoopCondition(threshold_upper, threshold_lower, conv)
    /\ pc' = "return"
    /\ UNCHANGED <<landscape, axis, conv, periodic, threshold_upper,
                   threshold_lower, percolating_cluster, mid_point, f, tested,
                   exc, exact>>

\* The whole image is recorded in place of the cluster.
BodyFoundImage ==
    /\ pc = "body"
    /\ tested = "True"
    /\ threshold_upper' = mid_point
    /\ percolating_cluster' = Image(landscape, mid_point)
    /\ pc' = "while"
    /\ UNCHANGED <<landscape, axis, conv, periodic, threshold_lower,
                   mid_point, f, tested, exc, exact>>

\* The cluster is not recorded.
BodyFoundNoRecord ==
    /\ pc = "body"
    /\ tested = "True"
    /\ threshold_upper' = mid_point
    /\ pc' = "while"
    /\ UNCHANGED <<landscape, axis, conv, periodic, threshold_lower,
                   percolating_cluster, mid_point, f, tested, exc, exact>>

\* Some cluster percolates: the bracket's top comes down and the cluster is
\* recorded.
BodyFound ==
    /\ pc = "body"
    /\ tested = "True"
    /\ threshold_upper' = mid_point
    /\ percolating_cluster' = AsInt(f)
    /\ pc' = "while"
    /\ UNCHANGED <<landscape, axis, conv, periodic, threshold_lower,
                   mid_point, f, tested, exc, exact>>

\* The for loop's else: no cluster percolates.
BodyNone ==
    /\ pc = "body"
    /\ tested = "False"
    /\ threshold_lower' = mid_point
    /\ pc' = "while"
    /\ UNCHANGED <<landscape, axis, conv, periodic, threshold_upper,
                   percolating_cluster, mid_point, f, tested, exc, exact>>

\* is_percolating raised: the exception leaves percolation_threshold.
BodyRaise ==
    /\ pc = "body"
    /\ tested \in {"ValueError", "AxisError"}
    /\ exc' = tested
    /\ pc' = "raise"
    /\ UNCHANGED <<landscape, axis, conv, periodic, threshold_upper,
                   threshold_lower, percolating_cluster, mid_point, f, tested,
                   exact>>

Next == WhileEnter \/ WhileExit \/ BodyFound \/ BodyNone \/ BodyRaise

Spec == Init /\ [][Next]_vars

\* The interpreter keeps running the loop: a step that is possible is taken.
FairSpec == LiveInit /\ [][Next]_vars /\ WF_vars(Next)


\* ------------------------------------------------------------ claim helpers

FieldValues(a) == {a[c[1]][c[2]] : c \in Cells(a)}

\* The single-cluster masks of (field <= h), in label order.
ClusterMasks(field, h) ==
    LET lab == label(Image(field, h))
    IN  [k \in 1..lab.labels |-> ClusterMask(lab.features, k)]

\* Some cluster of (field <= h) satisfies is_percolating.
SomePercolates(field, h, ax, per) ==
    LET m == ClusterMasks(field, h)
    IN  \E k \in DOMAIN m : is_percolating(m[k], ax, per) = "True"

\* The least height at which some cluster percolates.  The mask (field <= h)
\* changes only at the values of the field, and at the largest the whole grid
\* is one cluster.
HStar(field, ax, per) ==
    CHOOSE h \in FieldValues(field) :
        /\ SomePercolates(field, h, ax, per)
        /\ \A g \in FieldValues(field) : SomePercolates(field, g, ax, per) => h <= g

ValidAxis == axis \in {0, 1}

FullMask(a) == [r \in 1..NRows(a) |-> [c \in 1..NCols(a) |-> 1]]

\* The mask has an on cell in column 0 and one in column C-1 (axis 0), or in
\* row 0 and in row R-1 (axis 1).
ReachesBothEdges(mask, ax) ==
    IF ax = 0
    THEN (\E r \in 1..NRows(mask) : mask[r][1]) /\ (\E r \in 1..NRows(mask) : mask[r][NCols(mask)])
    ELSE (\E c \in 1..NCols(mask) : mask[1][c]) /\ (\E c \in 1..NCols(mask) : mask[NRows(mask)][c])

\* ---------------------------------------------------------------------- C1

\* C1: at return, for axis in {0,1} and conv > 0, the threshold lies between
\* the least percolating height h* and h* + conv; so it is at most h + conv for
\* every height h at which some cluster percolates.
C1_ThresholdWithinConv ==
    (pc = "return" /\ ValidAxis /\ conv > 0) =>
        /\ HStar(landscape, axis, periodic) <= threshold_upper
        /\ threshold_upper <= HStar(landscape, axis, periodic) + conv
        /\ \A h \in FieldValues(landscape) :
              SomePercolates(landscape, h, axis, periodic) => threshold_upper <= h + conv

\* A search that returned, in exact arithmetic, a threshold strictly above a
\* least percolating height that is strictly inside the field's range.
C1_Witness ==
    /\ pc = "return" /\ ValidAxis /\ conv > 0 /\ exact
    /\ percolating_cluster # None
    /\ ArrayMin(landscape) < HStar(landscape, axis, periodic)
    /\ HStar(landscape, axis, periodic) < threshold_upper
    /\ threshold_upper < ArrayMax(landscape)

\* ---------------------------------------------------------------------- C2

\* C2: for axis in {0,1} and conv > 0 the bisection loop eventually exits, and
\* at the exit the bracket is at most conv wide.
C2_Terminates ==
    (pc = "while" /\ ValidAxis /\ conv > 0) ~>
        (pc = "return" /\ threshold_upper - threshold_lower <= conv)

\* ---------------------------------------------------------------------- C3

\* C3: percolation is monotonic in the threshold: among the heights of the
\* field, the ends of the bracket and the midpoint probed, if some cluster
\* percolates at a height h then some cluster percolates at every height g >= h.
C3_Monotonic ==
    (pc = "body" /\ ValidAxis) =>
        LET hs == FieldValues(landscape) \cup {threshold_lower, threshold_upper, mid_point}
        IN  \A h \in hs : \A g \in hs :
               (h <= g /\ SomePercolates(landscape, h, axis, periodic))
               => SomePercolates(landscape, g, axis, periodic)

\* A probe of a periodic search that percolates, above a height that does not.
C3_Witness ==
    /\ pc = "body" /\ ValidAxis /\ periodic
    /\ SomePercolates(landscape, mid_point, axis, periodic)
    /\ ~SomePercolates(landscape, threshold_lower, axis, periodic)
    /\ mid_point < threshold_upper

\* ---------------------------------------------------------------------- C4

\* C4: for each single-cluster mask the labelling yields, is_percolating with
\* periodic=False is true exactly when the cluster reaches both opposite edges.
C4_SpanningIsBothEdges ==
    pc = "body" =>
        LET m == ClusterMasks(landscape, mid_point)
        IN  \A k \in DOMAIN m : \A ax \in {0, 1} :
               (is_percolating(m[k], ax, FALSE) = "True") <=> ReachesBothEdges(m[k], ax)

\* A probe on a grid three columns wide with a cluster that reaches both side
\* edges, so spans along axis 0, but does not reach both the top and the bottom.
C4_Witness ==
    /\ pc = "body" /\ NCols(landscape) >= 3 /\ NRows(landscape) >= 2
    /\ LET m == ClusterMasks(landscape, mid_point)
       IN  \E k \in DOMAIN m : /\ is_percolating(m[k], 0, FALSE) = "True"
                                /\ ReachesBothEdges(m[k], 0)
                                /\ is_percolating(m[k], 1, FALSE) = "False"

\* ---------------------------------------------------------------------- C5

\* C5: with periodic=True and an axis that is neither 0 nor 1, every call of
\* is_percolating fails with the error "axis should be 0 (x) or 1 (y)"
\* (ValueError) and never returns a boolean.
C5_InvalidAxisAlwaysRaises ==
    (pc = "body" /\ periodic /\ ~ValidAxis /\ conv > 0) =>
        LET m == ClusterMasks(landscape, mid_point)
        IN  \A k \in DOMAIN m : is_percolating(m[k], axis, periodic) = "ValueError"

\* ---------------------------------------------------------------------- C6

\* C6: for a checkerboard of 0 and 100, axis in {0,1} and conv > 0 the search
\* returns a threshold within conv of 100 and the full-grid mask.
C6_CheckerboardFullMask ==
    (pc = "return" /\ landscape \in Checkerboards /\ ValidAxis /\ conv > 0) =>
        /\ Hundred - conv <= threshold_upper
        /\ threshold_upper <= Hundred + conv
        /\ percolating_cluster = FullMask(landscape)

\* ---------------------------------------------------------------------- C7

RowMask == [r \in 1..5 |-> [c \in 1..5 |-> IF r = 3 THEN 1 ELSE 0]]

\* C7 as stated: for the 5x5 field with a row of zeros, axis=1 and conv=0.01
\* the search returns a threshold in [0, 0.01] and the mask of row 2.
C7_RowFieldAxis1 ==
    (pc = "return" /\ landscape = RowField /\ axis = 1
     /\ conv = Hundredth /\ ~periodic) =>
        /\ 0 <= threshold_upper /\ threshold_upper <= Hundredth
        /\ percolating_cluster = RowMask

\* C7 amended: the same with axis=0, the axis along which a full row spans.
C7_RowFieldAxis0 ==
    (pc = "return" /\ landscape = RowField /\ axis = 0
     /\ conv = Hundredth /\ ~periodic) =>
        /\ 0 <= threshold_upper /\ threshold_upper <= Hundredth
        /\ percolating_cluster = RowMask

\* The search on the row field with axis=0 and conv=0.01 has returned.
C7_Witness ==
    /\ pc = "return" /\ landscape = RowField /\ axis = 0
    /\ conv = Hundredth /\ ~periodic /\ exact

\* ---------------------------------------------------------------------- C8

\* C8 as stated: with conv <= 0 and axis in {0,1} the search never returns
\* (exact arithmetic).
C8_NonPositiveConvNeverReturns ==
    (conv <= 0 /\ ValidAxis /\ exact) => pc # "return"

\* C8 amended: with conv < 0, or with conv = 0 and a field that is not
\* constant, the search never returns and never raises (exact arithmetic).
C8_NeverReturnsUnlessConstant ==
    (ValidAxis /\ exact
     /\ (conv < 0 \/ (conv = 0 /\ ArrayMax(landscape) # ArrayMin(landscape)))) =>
        /\ pc \in {"while", "body"}
        /\ LoopCondition(threshold_upper, threshold_lower, conv)

\* A search with conv = 0 still running after both ends of the bracket moved.
C8_Witness ==
    /\ conv = 0 /\ ValidAxis /\ exact /\ pc = "while"
    /\ threshold_upper < ArrayMax(landscape)
    /\ threshold_lower > ArrayMin(landscape)

\* ---------------------------------------------------------------------- C9

\* C9: whenever percolating_cluster is present it is a 0/1 mask of the field's
\* shape, equal to one 4-connected cluster of (field <= threshold_upper), and
\* that cluster satisfies is_percolating for the given axis and periodic.
C9_ClusterMatchesThreshold ==
    percolating_cluster # None =>
        /\ NRows(percolating_cluster) = NRows(landscape)
        /\ \A r \in 1..NRows(landscape) :
              /\ Len(percolating_cluster[r]) = NCols(landscape)
              /\ \A c \in 1..NCols(landscape) : percolating_cluster[r][c] \in {0, 1}
        /\ LET m == ClusterMasks(landscape, threshold_upper)
           IN  \E k \in DOMAIN m :
                  /\ AsInt(m[k]) = percolating_cluster
                  /\ is_percolating(m[k], axis, periodic) = "True"

\* A search that returned one cluster out of several.
C9_Witness ==
    /\ pc = "return" /\ percolating_cluster # None
    /\ percolating_cluster # FullMask(landscape)
    /\ Len(ClusterMasks(landscape, threshold_upper)) >= 2

\* --------------------------------------------------------------------- C10

=============================================================================
